---- MODULE Spec2Model ----
(***************************************************************************)
(* Concurrent identifier collection, deduplication and checkpointing of    *)
(* the rare-disease literature downloader.                                 *)
(*                                                                         *)
(*   knowledge_graph/tasks/concurrent_download_literature.py               *)
(*       ConcurrentLiteratureDownloader: worker pool, shared index,        *)
(*       checkpoint file, stop flag                                        *)
(*   src/literature_downloader/optimized_pmc_downloader.py                 *)
(*       OptimizedPMCDownloader: retry wrapper, two-variant PMC search     *)
(*   src/literature_downloader/pubmed_downloader.py                        *)
(*       PubMedDownloader: retry wrapper, PubMed search                    *)
(*                                                                         *)
(* Subjects (disease names) are the integers 1..n in worklist order.       *)
(* PMC identifiers are integers from 100 up, PubMed identifiers from 200   *)
(* up; a Python dict is a function whose DOMAIN is its key set, a Python   *)
(* list is a sequence, a Python set is a set.                              *)
(***************************************************************************)
EXTENDS Integers, Sequences, FiniteSets, TLC

VARIABLES
    \* ---- ConcurrentLiteratureDownloader fields --------------------------
    disease_literature_mapping,   \* dict disease -> DiseaseLiteratureInfo
    unique_pmc_ids,               \* set
    unique_pmids,                 \* set
    literature_disease_mapping,   \* defaultdict(list): id -> list of diseases
    processed_count,
    successful_count,
    failed_count,
    should_stop,
    data_lock,                    \* holder of threading.Lock, or Free
    progress_file,                \* <<>> = no file, <<state>> = pickled state
    \* ---- one process running run_concurrent_download --------------------
    diseases,                     \* the worklist (after the max_diseases cut)
    max_workers,
    pc,                           \* position of the main thread
    processed_diseases,           \* local set of stage_one_concurrent_collect
    remaining_diseases,           \* local list of stage_one_concurrent_collect
    future,                       \* disease -> state of its submitted task
    ac_queue,                     \* finished futures as_completed has not
                                  \* yielded yet, in completion order
    cur,                          \* future yielded to the loop body (0: none)
    in_merge,                     \* callers inside process_disease_result
    report_written,               \* save_final_report ran in this process
    restarts,                     \* processes started after the first one
    \* ---- history variables ----------------------------------------------
    merged_log,                   \* results merged into the in-memory index
    saved_log,                    \* merged_log at the time of the last save
    at_stop,                      \* the tasks collecting (running) and not
                                  \* yet started (queued) when the flag was set
    saved_this_run,               \* save_progress_state ran in this process
    stop_pc,                      \* where the main thread was at the signal
    \* ---- one collect_single_disease_literature call (SpecCollect) -------
    download_mode,                \* "pmc_only", "pubmed_only" or "both"
    service,                      \* how the external service answers
    disease_info,                 \* <<>> or <<the returned info>>
    \* ---- the checkpoint file on disk and its load ------------------------
    file_status,                  \* "ok", or why pickle.load of it fails
    progress_state,               \* what load_progress_state returned to
                                  \* this process (<<>>: {} or not loaded)
    last_saved,                   \* content written by the last save that
                                  \* completed (<<>>: none)
    \* ---- stage two: batch_download_pmc_articles / _pubmed_abstracts -------
    id_list,                      \* pmc_id_list / pmid_list
    batch_size,                   \* pmc_config / pubmed_config .batch_size
    batch_start,                  \* the loop variable i
    successful_downloads,
    failed_downloads,
    batches,                      \* the batches requested by this process
    batch_pc,                     \* "idle", "loop" or "done"
    materialized,                 \* ids whose record is persisted on disk
    materialized_before,          \* materialized when this process started
    \* ---- one call through a retry wrapper --------------------------------
    wrapper,                      \* "_retry_call" (PMC) or "retry_call" (PubMed)
    max_retry,                    \* config.max_retry
    attempt,                      \* the attempt counter of the wrapper
    call_log,                     \* outcome of every invocation of fn so far
    sleeps,                       \* the sleeps, in units of get_sleep_time()
    retry_pc,                     \* "calling", "returned" or "raised"
    retry_value,                  \* what the wrapper returned
    retry_error,                  \* what the wrapper raised
    \* ---- one collector instance and its searches -------------------------
    max_records_per_search,       \* config.max_records_per_search
    processed_pmids,              \* the instance's set of processed ids
    search_pc,                    \* "idle" or "paging"
    count,                        \* locals of search_pmc_by_disease /
    retstart,                     \*   search_pubmed
    page_size,
    all_ids,
    final_search_term,            \* "exact", "loose" or "pubmed"
    page_requests,                \* the page queries of the current search
    entrez_calls,                 \* the external calls and the sleeps of the
                                  \* current search, in order
    search_results,               \* what the finished searches returned
    \* ---- the pool threads of PubMedDownloader.process_diseases_batch ------
    parse_todo,                   \* thread -> the PMIDs of the articles its
                                  \* parse_pubmed_xml has still to handle
    parse_checked,                \* thread -> it found the first of them
                                  \* absent from processed_pmids and has not
                                  \* added it yet
    parse_articles                \* thread -> the PMIDs of the articles its
                                  \* parse_pubmed_xml calls returned

indexVars == <<disease_literature_mapping, unique_pmc_ids, unique_pmids,
               literature_disease_mapping, processed_count, successful_count,
               failed_count>>
runVars   == <<diseases, max_workers, pc, processed_diseases,
               remaining_diseases, future, ac_queue, cur, in_merge,
               report_written>>
histVars  == <<merged_log, saved_log, at_stop, saved_this_run,
               stop_pc>>
colVars   == <<download_mode, service, disease_info>>
fileVars  == <<file_status, progress_state, last_saved>>
batchVars == <<id_list, batch_size, batch_start, successful_downloads,
               failed_downloads, batches, batch_pc, materialized,
               materialized_before>>
retryVars == <<wrapper, max_retry, attempt, call_log, sleeps, retry_pc,
               retry_value, retry_error>>
searchVars == <<max_records_per_search, processed_pmids, search_pc, count,
                retstart, page_size, all_ids, final_search_term,
                page_requests, entrez_calls, search_results>>
parseVars == <<parse_todo, parse_checked, parse_articles>>
ioVars    == <<batchVars, retryVars, searchVars, parseVars>>
vars      == <<indexVars, should_stop, data_lock, progress_file, restarts,
               runVars, histVars, colVars, fileVars, ioVars>>

----------------------------------------------------------------------------
(* Bounds of the model *)

MaxMerges    == 3     \* direct process_disease_result calls (SpecMerge)
MaxDiseases  == 3     \* worklist length of the concurrent runs (SpecRun)
MaxWorkers   == 2     \* max_workers of the concurrent runs (SpecRun)
LongDiseases == 12    \* worklist length of the sequential runs (SpecLong)
MaxRestarts  == 1     \* process restarts (crash or rerun)
MaxIds       == 3     \* deduplicated identifiers handed to stage two
MaxBatch     == 2     \* configured batch size of stage two
MaxRetry     == 3     \* configured max_retry
MaxPage      == 2     \* configured max_records_per_search
MaxSearches  == 2     \* searches of one subject
MaxThreads   == 2     \* pool threads sharing one PubMedDownloader

(* Program constants *)

SaveEvery == 10       \* "if self.processed_count % 10 == 0"

Free       == -1      \* data_lock not held
MainThread == 0       \* the thread running stage_one_concurrent_collect

----------------------------------------------------------------------------
(* Python helpers *)

Range(s) == {s[i] : i \in DOMAIN s}

NoDuplicates(s) == \A i, j \in DOMAIN s : i # j => s[i] # s[j]

EmptyDict == [k \in {} |-> <<>>]

\* dict.get(k, default)
Get(dict, k, default) == IF k \in DOMAIN dict THEN dict[k] ELSE default

\* dict[k] = v
Put(dict, k, v) == [x \in DOMAIN dict \cup {k} |-> IF x = k THEN v ELSE dict[x]]

\* lst[:k] with Python's treatment of a negative or too large k
SlicePrefix(lst, k) ==
    LET n == IF k >= 0 THEN (IF k < Len(lst) THEN k ELSE Len(lst))
                       ELSE (IF Len(lst) + k > 0 THEN Len(lst) + k ELSE 0)
    IN  SubSeq(lst, 1, n)

\* [d for d in lst if d not in excluded]
RECURSIVE FilterOut(_, _)
FilterOut(lst, excluded) ==
    IF lst = <<>> THEN <<>>
    ELSE LET rest == FilterOut(Tail(lst), excluded)
         IN  IF Head(lst) \in excluded THEN rest ELSE <<Head(lst)>> \o rest

\* a filter that keeps the processed subjects in the list
RemainingDiseasesUnfiltered(lst, processed) == lst

\* remaining_diseases = [d for d in diseases if d not in processed_diseases]
RemainingDiseases(lst, processed) == FilterOut(lst, processed)

----------------------------------------------------------------------------
(* DiseaseLiteratureInfo and the shared index *)

DiseaseLiteratureInfo(d, pmc, pm, ok, err) ==
    [disease |-> d, pmc_ids |-> pmc, pmids |-> pm, success |-> ok, error |-> err]

\* the in-memory index as one record
Index ==
    [disease_literature_mapping |-> disease_literature_mapping,
     unique_pmc_ids             |-> unique_pmc_ids,
     unique_pmids               |-> unique_pmids,
     literature_disease_mapping |-> literature_disease_mapping,
     processed_count            |-> processed_count,
     successful_count           |-> successful_count,
     failed_count               |-> failed_count]

\* state set by __init__
EmptyIndex ==
    [disease_literature_mapping |-> EmptyDict,
     unique_pmc_ids             |-> {},
     unique_pmids               |-> {},
     literature_disease_mapping |-> EmptyDict,
     processed_count            |-> 0,
     successful_count           |-> 0,
     failed_count               |-> 0]

SetIndex(idx) ==
    /\ disease_literature_mapping' = idx.disease_literature_mapping
    /\ unique_pmc_ids'             = idx.unique_pmc_ids
    /\ unique_pmids'               = idx.unique_pmids
    /\ literature_disease_mapping' = idx.literature_disease_mapping
    /\ processed_count'            = idx.processed_count
    /\ successful_count'           = idx.successful_count
    /\ failed_count'               = idx.failed_count

\* for id in ids: mapping[id].append(disease)
AppendDisease(mapping, ids, disease) ==
    [k \in DOMAIN mapping \cup ids |->
        IF k \in ids THEN Append(Get(mapping, k, <<>>), disease)
                     ELSE mapping[k]]

\* a merge that forgets the "if disease_info.success" test
ProcessDiseaseResultNoSuccessTest(idx, info) ==
    [idx EXCEPT
        !.disease_literature_mapping = Put(@, info.disease, info),
        !.successful_count = IF info.success THEN @ + 1 ELSE @,
        !.failed_count     = IF info.success THEN @ ELSE @ + 1,
        !.unique_pmc_ids   = @ \cup info.pmc_ids,
        !.unique_pmids     = @ \cup info.pmids,
        !.literature_disease_mapping =
            AppendDisease(AppendDisease(@, info.pmc_ids, info.disease),
                          info.pmids, info.disease),
        !.processed_count  = @ + 1]

\* a merge that counts a failed result as processed only
ProcessDiseaseResultUncounted(idx, info) ==
    IF info.success
    THEN ProcessDiseaseResultNoSuccessTest(idx, info)
    ELSE [idx EXCEPT
            !.disease_literature_mapping = Put(@, info.disease, info),
            !.processed_count  = @ + 1]

\* the body of process_disease_result, executed under data_lock
ProcessDiseaseResult(idx, info) ==
    IF info.success
    THEN [idx EXCEPT
            !.disease_literature_mapping = Put(@, info.disease, info),
            !.successful_count = @ + 1,
            !.unique_pmc_ids   = @ \cup info.pmc_ids,
            !.unique_pmids     = @ \cup info.pmids,
            !.literature_disease_mapping =
                AppendDisease(AppendDisease(@, info.pmc_ids, info.disease),
                              info.pmids, info.disease),
            !.processed_count  = @ + 1]
    ELSE [idx EXCEPT
            !.disease_literature_mapping = Put(@, info.disease, info),
            !.failed_count     = @ + 1,
            !.processed_count  = @ + 1]

----------------------------------------------------------------------------
(* The checkpoint file *)

\* the state dict built and pickled by save_progress_state
ProgressState(processed, idx) ==
    [processed_diseases         |-> processed,
     disease_literature_mapping |-> idx.disease_literature_mapping,
     unique_pmc_ids             |-> idx.unique_pmc_ids,
     unique_pmids               |-> idx.unique_pmids,
     literature_disease_mapping |-> idx.literature_disease_mapping,
     processed_count            |-> idx.processed_count,
     successful_count           |-> idx.successful_count,
     failed_count               |-> idx.failed_count]

\* a load that trusts whatever bytes of a state the file holds
LoadProgressStateUnchecked == progress_file

\* load_progress_state: the pickled dict; {} when there is no file or when
\* open / pickle.load raises (the except branch falls through to return {})
LoadProgressState ==
    IF progress_file = <<>> \/ file_status # "ok" THEN <<>> ELSE progress_file

\* "if progress_state:" restore of stage_one_concurrent_collect
RestoredIndex(loaded, idx) ==
    IF loaded = <<>> THEN idx
    ELSE LET st == loaded[1]
         IN  [disease_literature_mapping |-> st.disease_literature_mapping,
              unique_pmc_ids             |-> st.unique_pmc_ids,
              unique_pmids               |-> st.unique_pmids,
              literature_disease_mapping |-> st.literature_disease_mapping,
              processed_count            |-> st.processed_count,
              successful_count           |-> st.successful_count,
              failed_count               |-> st.failed_count]

\* processed_diseases = set(progress_state.get('processed_diseases', []))
LoadedProcessed(loaded) ==
    IF loaded = <<>> THEN {} ELSE loaded[1].processed_diseases

----------------------------------------------------------------------------
(* The collectors under a deterministic external service.                  *)
(*                                                                         *)
(* A service behaviour for one subject is a record                         *)
(*   exact, loose : raw PMC ids matched by the quoted / unquoted query     *)
(*   pmc_count_raises : every PMC count query raises a network error       *)
(*   pmc_page_raises  : every PMC page query raises a network error        *)
(*   pubmed : ids matched by the PubMed query                              *)
(*   pubmed_raises : every PubMed query raises a network error             *)
(* A query that always raises exhausts the retry wrapper, which re-raises. *)

\* "PMC" prefix put on a raw id that does not carry it yet
NormalizePmcId(raw) == IF raw >= 100 THEN raw ELSE 100 + raw

\* _retry_call / retry_call around a call that raises on every attempt or on
\* none: the value, or the exception once the attempts are used up
RetryCall(raises, value) ==
    IF raises THEN [raised |-> TRUE,  value |-> 0]
              ELSE [raised |-> FALSE, value |-> value]

\* _try_search: the match count, or 0 when the count query raised
TrySearch(svc, ids) ==
    LET r == RetryCall(svc.pmc_count_raises, Cardinality(ids))
    IN  IF r.raised THEN 0 ELSE r.value

\* the paging loop of search_pmc_by_disease over the adopted variant
PmcPages(svc, ids) ==
    LET r == RetryCall(svc.pmc_page_raises, {NormalizePmcId(i) : i \in ids})
    IN  IF r.raised THEN [raised |-> TRUE,  ids |-> {}]
                    ELSE [raised |-> FALSE, ids |-> r.value]

\* search_pmc_by_disease: [raised, ids]
SearchPmcByDisease(svc) ==
    IF TrySearch(svc, svc.exact) = 0
    THEN IF TrySearch(svc, svc.loose) = 0
         THEN [raised |-> FALSE, ids |-> {}]
         ELSE PmcPages(svc, svc.loose)
    ELSE PmcPages(svc, svc.exact)

\* collect_pmc_ids_only is called by collect_single_disease_literature but
\* defined nowhere in the sources at hand: the collector contract of the
\* design (return the subject's identifiers) is the PMC search
CollectPmcIdsOnly(svc) == SearchPmcByDisease(svc)

\* search_pubmed: every exception is caught and turned into []
SearchPubmed(svc) ==
    LET c == RetryCall(svc.pubmed_raises, Cardinality(svc.pubmed))
    IN  IF c.raised THEN {}
        ELSE IF c.value = 0 THEN {}
        ELSE LET r == RetryCall(svc.pubmed_raises, svc.pubmed)
             IN  IF r.raised THEN {} ELSE r.value

\* collect_single_disease_literature(disease) with the flag value it reads
CollectSingleDiseaseLiterature(d, mode, svc, stop) ==
    IF stop
    THEN DiseaseLiteratureInfo(d, {}, {}, FALSE, "Process stopped")
    ELSE LET pmc == IF mode \in {"pmc_only", "both"}
                    THEN CollectPmcIdsOnly(svc)
                    ELSE [raised |-> FALSE, ids |-> {}]
         IN  IF pmc.raised
             THEN DiseaseLiteratureInfo(d, {}, {}, FALSE, "error")
             ELSE DiseaseLiteratureInfo(d, pmc.ids,
                      IF mode \in {"pubmed_only", "both"}
                      THEN SearchPubmed(svc) ELSE {},
                      TRUE, "")

\* the service of the runs: subjects 1, 5, ... match the quoted query,
\* 2, 6, ... fail while paging, 3, 7, ... match only the unquoted query,
\* 4, 8, ... match nothing; raw id 0 (PMC100) and PubMed id 200 are shared
ServiceOf(d) ==
    [exact  |-> IF d % 4 \in {1, 2} THEN {0, d} ELSE {},
     loose  |-> IF d % 4 \in {1, 2, 3} THEN {0, d} ELSE {},
     pmc_count_raises |-> FALSE,
     pmc_page_raises  |-> (d % 4 = 2),
     pubmed |-> IF d % 4 = 0 THEN {} ELSE {200, 200 + d},
     pubmed_raises |-> FALSE]

\* the download mode of the runs
RunMode == "both"

\* what the task of subject d returns
TaskResult(d, stop) == CollectSingleDiseaseLiterature(d, RunMode, ServiceOf(d), stop)

\* the service of a run without any activity
NoService ==
    [exact |-> {}, loose |-> {}, pmc_count_raises |-> FALSE,
     pmc_page_raises |-> FALSE, pubmed |-> {}, pubmed_raises |-> FALSE]

----------------------------------------------------------------------------
(* Initial values *)

\* the fields set by __init__
InitDownloader ==
    /\ disease_literature_mapping = EmptyDict
    /\ unique_pmc_ids = {}
    /\ unique_pmids = {}
    /\ literature_disease_mapping = EmptyDict
    /\ processed_count = 0
    /\ successful_count = 0
    /\ failed_count = 0
    /\ should_stop = FALSE
    /\ data_lock = Free

\* a process that has not entered stage_one_concurrent_collect
InitProcess ==
    /\ pc = "start"
    /\ processed_diseases = {}
    /\ remaining_diseases = <<>>
    /\ future = EmptyDict
    /\ ac_queue = <<>>
    /\ cur = 0
    /\ in_merge = {}
    /\ report_written = FALSE

InitHistory ==
    /\ merged_log = <<>>
    /\ saved_log = <<>>
    /\ at_stop = [running |-> {}, queued |-> {}]
    /\ saved_this_run = FALSE
    /\ stop_pc = "none"

\* no process has loaded or saved yet; the file, if any, is a complete pickle
InitFile ==
    /\ file_status = "ok"
    /\ progress_state = <<>>
    /\ last_saved = <<>>

\* a process that has not entered stage two, on a disk without records
InitNoBatch ==
    /\ id_list = <<>>
    /\ batch_size = 1
    /\ batch_start = 0
    /\ successful_downloads = 0
    /\ failed_downloads = 0
    /\ batches = <<>>
    /\ batch_pc = "idle"
    /\ materialized = {}
    /\ materialized_before = {}

\* no call through a retry wrapper is under way
InitNoRetry ==
    /\ wrapper = "_retry_call"
    /\ max_retry = 0
    /\ attempt = 0
    /\ call_log = <<>>
    /\ sleeps = <<>>
    /\ retry_pc = "returned"
    /\ retry_value = "none"
    /\ retry_error = "none"

\* a collector instance that has searched nothing
InitNoSearch ==
    /\ max_records_per_search = 1
    /\ processed_pmids = {}
    /\ search_pc = "idle"
    /\ count = 0
    /\ retstart = 0
    /\ page_size = 0
    /\ all_ids = <<>>
    /\ final_search_term = "exact"
    /\ page_requests = <<>>
    /\ entrez_calls = <<>>
    /\ search_results = <<>>

InitNoParse ==
    /\ parse_todo = <<>>
    /\ parse_checked = <<>>
    /\ parse_articles = <<>>

InitNoCollect ==
    /\ download_mode = RunMode
    /\ service = NoService
    /\ disease_info = <<>>

\* the worklist 1..n
Worklist(n) == [i \in 1..n |-> i]

----------------------------------------------------------------------------
(* SpecMerge: process_disease_result, save_progress_state and the restore   *)
(* of a new process, called directly on arbitrary results.                  *)

\* results a collection can return: a failed one carries the PMC ids found
\* before the failure (the PubMed downloader is constructed after the PMC
\* search, outside the inner try) and never PubMed ids
MergeInputs ==
    { DiseaseLiteratureInfo(d, ids[1], ids[2], TRUE, "") :
        d \in 1..2,
        ids \in {<<{}, {}>>, <<{100}, {}>>, <<{101}, {200}>>,
                 <<{100, 101}, {200}>>} }
    \cup
    { DiseaseLiteratureInfo(d, pmc, {}, FALSE, "error") :
        d \in 1..2, pmc \in {{}, {102}} }

InitMerge ==
    /\ InitDownloader
    /\ InitNoBatch
    /\ InitNoRetry
    /\ InitNoSearch
    /\ InitProcess
    /\ InitNoParse
    /\ InitHistory
    /\ InitNoCollect
    /\ InitFile
    /\ progress_file = <<>>
    /\ restarts = 0
    /\ diseases = Worklist(2)
    /\ max_workers = 1

\* self.process_disease_result(info)
CallProcessDiseaseResult(info) ==
    /\ Len(merged_log) < MaxMerges
    /\ data_lock = Free
    /\ SetIndex(ProcessDiseaseResult(Index, info))
    /\ merged_log' = Append(merged_log, info)
    /\ UNCHANGED <<should_stop, data_lock, progress_file, restarts, runVars,
                   saved_log, at_stop, saved_this_run, stop_pc,
                   colVars, fileVars, ioVars>>

\* self.save_progress_state(list of the subjects merged so far)
CallSaveProgressState ==
    /\ merged_log # <<>>
    /\ progress_file' = <<ProgressState(DOMAIN disease_literature_mapping, Index)>>
    /\ file_status' = "ok"
    /\ last_saved' = progress_file'
    /\ saved_log' = merged_log
    /\ saved_this_run' = TRUE
    /\ UNCHANGED <<indexVars, should_stop, data_lock, restarts, runVars,
                   merged_log, at_stop, stop_pc, colVars, progress_state,
                   ioVars>>

\* a new process: __init__, then the load and restore that open
\* stage_one_concurrent_collect
RestartAndRestore ==
    /\ restarts < MaxRestarts
    /\ restarts' = restarts + 1
    /\ progress_state' = LoadProgressState
    /\ SetIndex(RestoredIndex(LoadProgressState, EmptyIndex))
    /\ merged_log' = saved_log
    /\ saved_this_run' = FALSE
    /\ UNCHANGED <<should_stop, data_lock, progress_file, runVars, saved_log,
                   at_stop, stop_pc, colVars, file_status, last_saved,
                   ioVars>>

NextMerge ==
    \/ \E info \in MergeInputs : CallProcessDiseaseResult(info)
    \/ CallSaveProgressState
    \/ RestartAndRestore

SpecMerge == InitMerge /\ [][NextMerge]_vars

----------------------------------------------------------------------------
(* Properties of the merge (SpecMerge) *)

\* the successful results merged into the in-memory index
SuccessfulMerged == {r \in Range(merged_log) : r.success}

\* the subjects whose successful merged result contained id
SubjectsOf(id) ==
    {r.disease : r \in {x \in SuccessfulMerged : id \in x.pmc_ids \cup x.pmids}}

\* merging the results of a log, in the order of the log, into an empty index
RECURSIVE FoldMerge(_)
FoldMerge(log) ==
    IF log = <<>> THEN EmptyIndex
    ELSE ProcessDiseaseResult(FoldMerge(SubSeq(log, 1, Len(log) - 1)),
                              log[Len(log)])

\* C1: the unique-id sets are exactly the union of the identifiers of the
\* successful results merged so far, and so have its size; a failed result
\* adds no identifier
C1_UniqueIsUnionOfSuccessful ==
    LET pmc   == UNION {r.pmc_ids : r \in SuccessfulMerged}
        pmids == UNION {r.pmids : r \in SuccessfulMerged}
    IN  /\ unique_pmc_ids = pmc
        /\ unique_pmids = pmids
        /\ Cardinality(unique_pmc_ids) = Cardinality(pmc)
        /\ Cardinality(unique_pmids) = Cardinality(pmids)

\* C1 witness: two subjects with overlapping successful results and a failed
\* result whose identifier stayed out of the index
C1_Witness ==
    /\ \E r1, r2 \in SuccessfulMerged :
          /\ r1.disease # r2.disease
          /\ r1.pmc_ids \cap r2.pmc_ids # {}
          /\ r1.pmc_ids # r2.pmc_ids
    /\ \E f \in Range(merged_log) :
          ~f.success /\ f.pmc_ids # {} /\ f.pmc_ids \cap unique_pmc_ids = {}

\* C2: every reverse-map entry holds exactly the subjects whose successful
\* merged result contained the identifier, each of them once
C2_ReverseMapExactlyOnce ==
    /\ \A id \in DOMAIN literature_disease_mapping :
          /\ Range(literature_disease_mapping[id]) = SubjectsOf(id)
          /\ NoDuplicates(literature_disease_mapping[id])
    /\ \A r \in SuccessfulMerged :
          r.pmc_ids \cup r.pmids \subseteq DOMAIN literature_disease_mapping

\* C8: when every subject has at most one merged result, merging the same
\* results in any other order gives the same unique-id sets and the same
\* reverse-map entries
C8_OrderIndependent ==
    (\A i, j \in DOMAIN merged_log :
        i # j => merged_log[i].disease # merged_log[j].disease)
    => \A p \in Permutations(DOMAIN merged_log) :
          LET other == FoldMerge([i \in DOMAIN merged_log |-> merged_log[p[i]]])
          IN  /\ other.unique_pmc_ids = unique_pmc_ids
              /\ other.unique_pmids = unique_pmids
              /\ other.literature_disease_mapping = literature_disease_mapping

----------------------------------------------------------------------------
(* SpecRun, SpecLong: processes running run_concurrent_download *)

\* the tasks a worker thread is executing
Running == {d \in DOMAIN future : future[d] = "running"}

\* the submitted tasks no worker has taken yet
Queued == {d \in DOMAIN future : future[d] = "queued"}

\* a finished future is handed to as_completed, which yields the futures in
\* the order in which they finish.  The submissions and the as_completed
\* call follow each other in the main thread without any blocking call in
\* between, while a task needs at least one network round trip, so no task
\* is taken to finish before as_completed has installed its waiter.
Notify(d) == ac_queue' = Append(ac_queue, d)

\* _signal_handler
SignalHandler ==
    /\ pc \notin {"returned"}
    /\ ~should_stop
    /\ should_stop' = TRUE
    /\ at_stop' = [running |-> Running, queued |-> Queued]
    /\ stop_pc' = pc
    /\ UNCHANGED <<indexVars, data_lock, progress_file, restarts, runVars,
                   merged_log, saved_log, saved_this_run, colVars, fileVars, ioVars>>

\* stage_one_concurrent_collect up to the as_completed call: load, restore,
\* filter, submit
StageOneBegin ==
    /\ pc = "start"
    /\ LET loaded    == LoadProgressState
           processed == LoadedProcessed(loaded)
           remaining == RemainingDiseases(diseases, processed)
       IN  /\ progress_state' = loaded
           /\ SetIndex(RestoredIndex(loaded, Index))
           /\ processed_diseases' = processed
           /\ remaining_diseases' = remaining
           /\ IF remaining = <<>>
              THEN /\ pc' = "stage_one_returned"
                   /\ future' = future
              ELSE /\ pc' = "loop"
                   /\ future' = [d \in Range(remaining) |-> "queued"]
    /\ UNCHANGED <<should_stop, data_lock, progress_file, restarts, diseases,
                   max_workers, ac_queue, cur,
                   in_merge, report_written, histVars, colVars, file_status,
                   last_saved, ioVars>>

\* a task that starts without looking at the flag
TaskNeverTestsStop == FALSE

\* "if self.should_stop" at the top of collect_single_disease_literature
TaskTestsStop == should_stop

\* a pool thread takes the oldest queued task and runs
\* collect_single_disease_literature up to its test of should_stop
TaskStart(d) ==
    /\ pc \in {"loop", "got", "merging", "exit_pool"}
    /\ d \in Queued
    /\ \A e \in Queued : e >= d
    /\ Cardinality(Running) < max_workers
    /\ IF TaskTestsStop
       THEN /\ future' = [future EXCEPT ![d] = "stopped"]
            /\ Notify(d)
       ELSE /\ future' = [future EXCEPT ![d] = "running"]
            /\ ac_queue' = ac_queue
    /\ UNCHANGED <<indexVars, should_stop, data_lock, progress_file, restarts,
                   diseases, max_workers, pc, processed_diseases,
                   remaining_diseases, cur, in_merge,
                   report_written, histVars, colVars, fileVars, ioVars>>

\* the searches of a running task return and its future is set
TaskFinish(d) ==
    /\ d \in Running
    /\ future' = [future EXCEPT ![d] = "finished"]
    /\ Notify(d)
    /\ UNCHANGED <<indexVars, should_stop, data_lock, progress_file, restarts,
                   diseases, max_workers, pc, processed_diseases,
                   remaining_diseases, cur, in_merge,
                   report_written, histVars, colVars, fileVars, ioVars>>

\* a loop body that goes on whatever the flag
LoopNeverTestsStop == FALSE

\* "if self.should_stop: break" at the top of the as_completed loop body
LoopTestsStop == should_stop

\* as_completed yields d and the loop body tests should_stop
AsCompletedYield(d) ==
    /\ pc = "loop"
    /\ ac_queue # <<>> /\ d = Head(ac_queue)
    /\ ac_queue' = Tail(ac_queue)
    /\ IF LoopTestsStop
       THEN /\ pc' = "exit_pool"
            /\ cur' = 0
       ELSE /\ pc' = "got"
            /\ cur' = d
    /\ UNCHANGED <<indexVars, should_stop, data_lock, progress_file, restarts,
                   diseases, max_workers, processed_diseases,
                   remaining_diseases, future, in_merge,
                   report_written, histVars, colVars, fileVars, ioVars>>

\* as_completed is exhausted: every future has been yielded
AsCompletedEnd ==
    /\ pc = "loop"
    /\ ac_queue = <<>>
    /\ \A d \in DOMAIN future : future[d] \in {"finished", "stopped"}
    /\ pc' = "exit_pool"
    /\ UNCHANGED <<indexVars, should_stop, data_lock, progress_file, restarts,
                   diseases, max_workers, processed_diseases,
                   remaining_diseases, future, ac_queue, cur, in_merge, report_written, histVars, colVars, fileVars, ioVars>>

\* the result held by the finished future of subject d
FutureResult(d) == TaskResult(d, future[d] = "stopped")

\* a caller with no lock discipline: any thread holding a result may merge
MayCallProcessDiseaseResultUnguarded(c) == TRUE

\* who may enter the body of process_disease_result: it is called from the
\* as_completed loop of the main thread only, and its body is inside
\* "with self.data_lock"
MayCallProcessDiseaseResult(c) == c = MainThread /\ data_lock = Free

\* caller c holds a result that it has not merged
HoldsUnmergedResult(c) ==
    IF c = MainThread THEN pc = "got"
    ELSE /\ c \in DOMAIN future
         /\ future[c] = "finished"
         /\ c \notin DOMAIN disease_literature_mapping
         /\ c # cur

\* process_disease_result: the caller acquires data_lock
MergeBegin(c) ==
    /\ c \notin in_merge
    /\ HoldsUnmergedResult(c)
    /\ MayCallProcessDiseaseResult(c)
    /\ data_lock' = c
    /\ in_merge' = in_merge \cup {c}
    /\ pc' = IF c = MainThread THEN "merging" ELSE pc
    /\ UNCHANGED <<indexVars, should_stop, progress_file, restarts, diseases,
                   max_workers, processed_diseases, remaining_diseases,
                   future, ac_queue, cur,
                   report_written, histVars, colVars, fileVars, ioVars>>

\* process_disease_result: the body runs and the lock is released; the main
\* thread then finishes the loop body: progress line, the save at every
\* tenth processed subject, the short sleep
MergeEnd(c) ==
    /\ c \in in_merge
    /\ LET info   == IF c = MainThread THEN FutureResult(cur) ELSE FutureResult(c)
           merged == ProcessDiseaseResult(Index, info)
           save   == c = MainThread /\ merged.processed_count % SaveEvery = 0
           listed == IF save THEN processed_diseases \cup {cur}
                             ELSE processed_diseases
       IN  /\ SetIndex(merged)
           /\ processed_diseases' = listed
           /\ progress_file' = IF save THEN <<ProgressState(listed, merged)>>
                                       ELSE progress_file
           /\ file_status' = IF save THEN "ok" ELSE file_status
           /\ last_saved' = IF save THEN progress_file' ELSE last_saved
           /\ saved_this_run' = (saved_this_run \/ save)
    /\ in_merge' = in_merge \ {c}
    /\ data_lock' = Free
    /\ pc' = IF c = MainThread THEN "loop" ELSE pc
    /\ cur' = IF c = MainThread THEN 0 ELSE cur
    /\ UNCHANGED <<should_stop, restarts, diseases, max_workers,
                   remaining_diseases, future, ac_queue, report_written,
                   merged_log, saved_log, at_stop, stop_pc, colVars,
                   progress_state, ioVars>>

\* final_processed of stage_one_concurrent_collect
FinalProcessed ==
    processed_diseases \cup
    Range(SlicePrefix(remaining_diseases,
                      processed_count - Cardinality(processed_diseases)))

\* the with-block of the executor is left once every task has run; then the
\* final save_progress_state
FinalSave ==
    /\ pc = "exit_pool"
    /\ Queued = {} /\ Running = {}
    /\ progress_file' = <<ProgressState(FinalProcessed, Index)>>
    /\ file_status' = "ok"
    /\ last_saved' = progress_file'
    /\ saved_this_run' = TRUE
    /\ pc' = "stage_one_returned"
    /\ UNCHANGED <<indexVars, should_stop, data_lock, restarts, diseases,
                   max_workers, processed_diseases, remaining_diseases,
                   future, ac_queue, cur, in_merge,
                   report_written, merged_log, saved_log, at_stop,
                   stop_pc, colVars, progress_state, ioVars>>

\* run_concurrent_download after stage one: return at once when the flag is
\* set, else stage two and save_final_report
RunEnd ==
    /\ pc = "stage_one_returned"
    /\ pc' = "returned"
    /\ report_written' = ~should_stop
    /\ UNCHANGED <<indexVars, should_stop, data_lock, progress_file, restarts,
                   diseases, max_workers, processed_diseases,
                   remaining_diseases, future, ac_queue, cur, in_merge, histVars, colVars, fileVars, ioVars>>

\* the process ends (it returned, or it is killed at any point) and a new
\* process is started on the same worklist: memory is lost, the file stays
Restart ==
    /\ restarts < MaxRestarts
    /\ restarts' = restarts + 1
    /\ SetIndex(EmptyIndex)
    /\ should_stop' = FALSE
    /\ data_lock' = Free
    /\ pc' = "start"
    /\ processed_diseases' = {}
    /\ remaining_diseases' = <<>>
    /\ future' = EmptyDict
    /\ ac_queue' = <<>>
    /\ cur' = 0
    /\ in_merge' = {}
    /\ report_written' = FALSE
    /\ at_stop' = [running |-> {}, queued |-> {}]
    /\ saved_this_run' = FALSE
    /\ stop_pc' = "none"
    /\ progress_state' = <<>>
    /\ UNCHANGED <<progress_file, diseases, max_workers, merged_log,
                   saved_log, colVars, file_status, last_saved, ioVars>>

NextRun ==
    \/ SignalHandler
    \/ StageOneBegin
    \/ \E d \in Range(diseases) : TaskStart(d)
    \/ \E d \in Range(diseases) : TaskFinish(d)
    \/ \E d \in Range(diseases) : AsCompletedYield(d)
    \/ AsCompletedEnd
    \/ \E c \in {MainThread} \cup Range(diseases) : MergeBegin(c)
    \/ \E c \in {MainThread} \cup Range(diseases) : MergeEnd(c)
    \/ FinalSave
    \/ RunEnd
    \/ Restart

InitRunWith(n, w) ==
    /\ InitDownloader
    /\ InitNoBatch
    /\ InitNoRetry
    /\ InitNoSearch
    /\ InitProcess
    /\ InitNoParse
    /\ InitHistory
    /\ InitNoCollect
    /\ InitFile
    /\ progress_file = <<>>
    /\ restarts = 0
    /\ diseases = Worklist(n)
    /\ max_workers = w

\* short worklists collected by one or several workers
InitRun == \E n \in 1..MaxDiseases, w \in 1..MaxWorkers : InitRunWith(n, w)

SpecRun == InitRun /\ [][NextRun]_vars

\* a worklist longer than the save interval collected by one worker
InitLong == InitRunWith(LongDiseases, 1)

SpecLong == InitLong /\ [][NextRun]_vars

\* one process from its start to its return
NextStage ==
    \/ SignalHandler
    \/ StageOneBegin
    \/ \E d \in Range(diseases) : TaskStart(d)
    \/ \E d \in Range(diseases) : TaskFinish(d)
    \/ \E d \in Range(diseases) : AsCompletedYield(d)
    \/ AsCompletedEnd
    \/ MergeBegin(MainThread)
    \/ MergeEnd(MainThread)
    \/ FinalSave
    \/ RunEnd

\* the main thread and the pool threads keep running, and every external
\* call of a task returns (TaskFinish)
StageFairness ==
    /\ WF_vars(StageOneBegin)
    /\ WF_vars(\E d \in Range(diseases) : TaskStart(d))
    /\ WF_vars(\E d \in Range(diseases) : TaskFinish(d))
    /\ WF_vars(\E d \in Range(diseases) : AsCompletedYield(d))
    /\ WF_vars(AsCompletedEnd)
    /\ WF_vars(MergeBegin(MainThread))
    /\ WF_vars(MergeEnd(MainThread))
    /\ WF_vars(FinalSave)

SpecStage == InitRun /\ [][NextStage]_vars /\ StageFairness

----------------------------------------------------------------------------
(* SpecCollect: one collect_single_disease_literature call under each       *)
(* deterministic service behaviour and download mode.                       *)

Modes == {"pmc_only", "pubmed_only", "both"}

ServiceBehaviours ==
    [exact : {{}, {1}, {1, 2}}, loose : {{}, {1}, {1, 2}},
     pmc_count_raises : BOOLEAN, pmc_page_raises : BOOLEAN,
     pubmed : {{}, {201}}, pubmed_raises : BOOLEAN]

InitCollect ==
    /\ InitDownloader
    /\ InitNoBatch
    /\ InitNoRetry
    /\ InitNoSearch
    /\ InitProcess
    /\ InitNoParse
    /\ InitHistory
    /\ InitFile
    /\ progress_file = <<>>
    /\ restarts = 0
    /\ diseases = Worklist(1)
    /\ max_workers = 1
    /\ download_mode \in Modes
    /\ service \in ServiceBehaviours
    /\ disease_info = <<>>

\* collect_single_disease_literature(diseases[1]) runs to its return
CollectCall ==
    /\ disease_info = <<>>
    /\ disease_info' =
          <<CollectSingleDiseaseLiterature(diseases[1], download_mode,
                                           service, should_stop)>>
    /\ UNCHANGED <<indexVars, should_stop, data_lock, progress_file, restarts,
                   runVars, histVars, download_mode, service,
                   fileVars, ioVars>>

NextCollect ==
    \/ SignalHandler
    \/ CollectCall

SpecCollect == InitCollect /\ [][NextCollect]_vars

----------------------------------------------------------------------------
(* Properties of the collection (SpecCollect) *)

\* the PMC search is part of the mode and its count queries keep raising
PmcSearchFails == download_mode \in {"pmc_only", "both"} /\ service.pmc_count_raises

\* the PubMed search is part of the mode and its queries keep raising
PubmedSearchFails == download_mode \in {"pubmed_only", "both"} /\ service.pubmed_raises

----------------------------------------------------------------------------
(* Properties of the runs (SpecRun, SpecLong) *)

\* the index of one uninterrupted run over the whole worklist
UninterruptedIndex ==
    FoldMerge([i \in DOMAIN diseases |-> TaskResult(diseases[i], FALSE)])

\* stage one ended in this process without a stop signal
StageOneCompleted == pc \in {"stage_one_returned", "returned"} /\ stop_pc = "none"

\* the stop signal arrived while stage one was collecting
StoppedInStageOne == stop_pc \in {"loop", "got", "merging"}

\* C4: a run that completes the worklist, whatever was interrupted and
\* checkpointed before it, ends with the unique-id sets of one uninterrupted
\* run
C4_ResumeEqualsUninterrupted ==
    StageOneCompleted
    => /\ unique_pmc_ids = UninterruptedIndex.unique_pmc_ids
       /\ unique_pmids = UninterruptedIndex.unique_pmids

\* C5: every subject listed as processed in the checkpoint file has its
\* result in the index stored in the same file
C5_ListedSubjectsAreMerged ==
    progress_file # <<>>
    => \A d \in progress_file[1].processed_diseases :
          d \in DOMAIN progress_file[1].disease_literature_mapping

\* the merged subjects a process restarted now from the file collects again
Rework ==
    {d \in Range(diseases) :
        /\ d \in DOMAIN disease_literature_mapping
        /\ d \notin LoadedProcessed(progress_file)}

\* C6: the file holds the current counters whenever processed_count is at a
\* multiple of ten inside the loop, and a crash at any point makes the
\* resumed run collect again at most ten merged subjects
C6_CheckpointEveryTenBoundsRework ==
    /\ (pc \in {"loop", "got", "merging"} /\ processed_count > 0
          /\ processed_count % SaveEvery = 0)
        => /\ progress_file # <<>>
           /\ progress_file[1].processed_count = processed_count
    /\ Cardinality(Rework) <= SaveEvery

C9_StopDrainsInflightTasks ==
    (pc \in {"stage_one_returned", "returned"} /\ StoppedInStageOne)
    => /\ \A d \in at_stop.queued : future[d] = "stopped"
       /\ \A d \in at_stop.running : d \in DOMAIN disease_literature_mapping
       /\ saved_this_run

\* C10: when run_concurrent_download returns after a stop signal that
\* arrived during the collection, the checkpoint file holds the state
\* collected so far and the run report has been written
C10_InterruptFlushesCheckpointAndReport ==
    (pc = "returned" /\ StoppedInStageOne)
    => /\ saved_this_run
       /\ RestoredIndex(progress_file, EmptyIndex) = Index
       /\ report_written

----------------------------------------------------------------------------
(* SpecSave: save_progress_state step by step.  open(progress_file, 'wb')   *)
(* truncates the file before pickle.dump writes the new state, so between   *)
(* the two the file holds an incomplete pickle stream; the process can be   *)
(* killed there, or the dump can raise (disk full), which the except        *)
(* branch of save_progress_state logs and swallows.                         *)

\* results merged between the saves
SaveInputs ==
    { DiseaseLiteratureInfo(1, {100}, {200}, TRUE, ""),
      DiseaseLiteratureInfo(2, {100, 101}, {}, TRUE, ""),
      DiseaseLiteratureInfo(2, {}, {}, FALSE, "error") }

\* the main thread merges a result while it is not inside a save
MergeOutsideSave(info) ==
    /\ pc = "start"
    /\ CallProcessDiseaseResult(info)

\* save_progress_state: the state dict is built and the file is opened for
\* writing, which truncates it
SaveOpen ==
    /\ pc = "start"
    /\ merged_log # <<>>
    /\ progress_file' = <<ProgressState(DOMAIN disease_literature_mapping, Index)>>
    /\ file_status' = "truncated"
    /\ pc' = "dumping"
    /\ UNCHANGED <<indexVars, should_stop, data_lock, restarts, diseases,
                   max_workers, processed_diseases, remaining_diseases,
                   future, ac_queue, cur, in_merge, report_written,
                   histVars, colVars, progress_state, last_saved, ioVars>>

\* save_progress_state: pickle.dump completes and the file is closed
SaveDump ==
    /\ pc = "dumping"
    /\ file_status' = "ok"
    /\ last_saved' = progress_file
    /\ saved_log' = merged_log
    /\ saved_this_run' = TRUE
    /\ pc' = "start"
    /\ UNCHANGED <<indexVars, should_stop, data_lock, progress_file, restarts,
                   diseases, max_workers, processed_diseases,
                   remaining_diseases, future, ac_queue, cur, in_merge,
                   report_written, merged_log, at_stop, stop_pc, colVars,
                   progress_state, ioVars>>

\* save_progress_state: the write raises; the exception is caught and
\* printed, the run goes on with the file as the failed write left it
SaveDumpRaises ==
    /\ pc = "dumping"
    /\ pc' = "start"
    /\ UNCHANGED <<indexVars, should_stop, data_lock, progress_file, restarts,
                   diseases, max_workers, processed_diseases,
                   remaining_diseases, future, ac_queue, cur, in_merge,
                   report_written, histVars, colVars, fileVars, ioVars>>

\* the process is killed at any point; a new process loads the file and
\* restores the index from what load_progress_state returns
CrashAndRestore ==
    /\ restarts < MaxRestarts
    /\ restarts' = restarts + 1
    /\ pc' = "start"
    /\ progress_state' = LoadProgressState
    /\ SetIndex(RestoredIndex(LoadProgressState, EmptyIndex))
    /\ merged_log' = IF LoadProgressState = <<>> THEN <<>> ELSE saved_log
    /\ saved_this_run' = FALSE
    /\ UNCHANGED <<should_stop, data_lock, progress_file, diseases,
                   max_workers, processed_diseases, remaining_diseases,
                   future, ac_queue, cur, in_merge, report_written,
                   saved_log, at_stop, stop_pc, colVars, file_status,
                   last_saved, ioVars>>

NextSave ==
    \/ \E info \in SaveInputs : MergeOutsideSave(info)
    \/ SaveOpen
    \/ SaveDump
    \/ SaveDumpRaises
    \/ CrashAndRestore

SpecSave == InitMerge /\ [][NextSave]_vars

\* C11: at every point at which the process can die, load_progress_state
\* would return the complete state of the last save that completed, or the
\* complete state of the save that is being written or has just failed
C11_SaveIsCrashAtomic ==
    \/ LoadProgressState = last_saved
    \/ /\ progress_file # <<>>
       /\ progress_file # last_saved
       /\ LoadProgressState = progress_file

----------------------------------------------------------------------------
(* SpecResume: run_concurrent_download started over a checkpoint file left  *)
(* by an earlier process: no file, a complete file, or a file on which open *)
(* or pickle.load raises.                                                   *)

\* the checkpoint of an earlier run that processed the first k subjects
EarlierCheckpoint(lst, k) ==
    ProgressState(Range(SubSeq(lst, 1, k)),
                  FoldMerge([i \in 1..k |-> TaskResult(lst[i], FALSE)]))

\* why load_progress_state cannot decode a file: the pickle stream is
\* incomplete, the bytes are no pickle stream, the file cannot be opened
Damages == {"truncated", "malformed", "unreadable"}

InitResume ==
    /\ InitDownloader
    /\ InitNoBatch
    /\ InitNoRetry
    /\ InitNoSearch
    /\ InitProcess
    /\ InitNoParse
    /\ InitHistory
    /\ InitNoCollect
    /\ restarts = 0
    /\ progress_state = <<>>
    /\ last_saved = <<>>
    /\ \E n \in 1..MaxDiseases, w \in 1..MaxWorkers :
          /\ diseases = Worklist(n)
          /\ max_workers = w
          /\ \/ progress_file = <<>> /\ file_status = "ok"
             \/ \E k \in 1..n :
                   /\ progress_file = <<EarlierCheckpoint(Worklist(n), k)>>
                   /\ file_status \in {"ok"} \cup Damages

SpecResume == InitResume /\ [][NextRun]_vars

\* stage one is in its loop and has taken no result from as_completed
NoResultTaken ==
    /\ pc = "loop"
    /\ \A d \in DOMAIN future :
          future[d] \in {"queued", "running"} \/ d \in Range(ac_queue)

C13_OneTaskPerUnprocessedSubject ==
    pc # "start"
    => LET listed == LoadedProcessed(progress_state)
       IN  /\ DOMAIN future = Range(diseases) \ listed
           /\ Range(remaining_diseases) = DOMAIN future
           /\ NoDuplicates(remaining_diseases)
           /\ Range(diseases) \subseteq listed
                => /\ future = EmptyDict
                   /\ pc \in {"stage_one_returned", "returned"}
                   /\ Index = RestoredIndex(progress_state, EmptyIndex)

\* C13 witness: a run over a checkpoint that lists a part of the worklist
\* has collected the rest and returned
C13_Witness ==
    /\ pc = "returned"
    /\ LoadedProcessed(progress_state) # {}
    /\ DOMAIN future # {}
    /\ Cardinality(DOMAIN future) + Cardinality(LoadedProcessed(progress_state))
          = Len(diseases)

----------------------------------------------------------------------------
(* SpecBatch: stage two of the optimized downloader.                        *)
(* batch_download_pmc_articles (mode "pmc_only") or                         *)
(* batch_download_pubmed_abstracts (mode "pubmed_only") cuts the            *)
(* deduplicated identifiers into batches and fetches them one by one; each  *)
(* fetch succeeds or fails after its retries.  A rerun is a new process     *)
(* that restores the index from the checkpoint and enters stage two again,  *)
(* on the disk the earlier run left.                                        *)

\* the larger instance: the example of the design, 250 identifiers with a
\* batch size of 100
DesignIds   == 250
DesignBatch == 100

\* n identifiers of the database of the mode
IdsOf(mode, n) ==
    IF mode = "pmc_only" THEN 100..(100 + n - 1) ELSE 1000..(1000 + n - 1)

\* list(self.unique_pmc_ids): the set in an order the program does not
\* choose; every order for a small set, the ascending one for a large set
ListOf(ids) ==
    IF Cardinality(ids) <= MaxIds
    THEN {f \in [1..Cardinality(ids) -> ids] : \A x \in ids : \E k \in DOMAIN f : f[k] = x}
    ELSE {[k \in 1..Cardinality(ids) |->
             CHOOSE x \in ids : Cardinality({y \in ids : y < x}) = k - 1]}

\* a slice that loses the last identifier of a full batch
BatchSliceShort(lst, start, size) ==
    SubSeq(lst, start + 1,
           IF start + size - 1 < Len(lst) THEN start + size - 1 ELSE Len(lst))

\* pmc_id_list[i:i + batch_size]
BatchSlice(lst, start, size) ==
    SubSeq(lst, start + 1,
           IF start + size < Len(lst) THEN start + size ELSE Len(lst))

\* the identifiers stage two works on
StageTwoIds ==
    IF download_mode = "pmc_only" THEN unique_pmc_ids ELSE unique_pmids

\* an index that stage one filled with the identifiers of one subject, and
\* the checkpoint it left
InitBatch ==
    /\ InitProcess
    /\ InitNoParse
    /\ InitNoRetry
    /\ InitNoSearch
    /\ InitHistory
    /\ should_stop = FALSE
    /\ data_lock = Free
    /\ restarts = 0
    /\ diseases = Worklist(1)
    /\ max_workers = 1
    /\ service = NoService
    /\ disease_info = <<>>
    /\ file_status = "ok"
    /\ progress_state = <<>>
    /\ id_list = <<>>
    /\ batch_start = 0
    /\ successful_downloads = 0
    /\ failed_downloads = 0
    /\ batches = <<>>
    /\ batch_pc = "idle"
    /\ materialized = {}
    /\ materialized_before = {}
    /\ download_mode \in {"pmc_only", "pubmed_only"}
    /\ \E c \in ((0..MaxIds) \X (1..MaxBatch)) \cup {<<DesignIds, DesignBatch>>} :
          LET ids  == IdsOf(download_mode, c[1])
              info == DiseaseLiteratureInfo(1,
                          IF download_mode = "pmc_only" THEN ids ELSE {},
                          IF download_mode = "pmc_only" THEN {} ELSE ids,
                          TRUE, "")
              idx  == ProcessDiseaseResult(EmptyIndex, info)
          IN  /\ batch_size = c[2]
              /\ disease_literature_mapping = idx.disease_literature_mapping
              /\ unique_pmc_ids = idx.unique_pmc_ids
              /\ unique_pmids = idx.unique_pmids
              /\ literature_disease_mapping = idx.literature_disease_mapping
              /\ processed_count = idx.processed_count
              /\ successful_count = idx.successful_count
              /\ failed_count = idx.failed_count
              /\ progress_file = <<ProgressState({1}, idx)>>
              /\ last_saved = progress_file

\* batch_download_*: return at once on an empty set, else list the set and
\* enter the loop
BatchDownloadBegin ==
    /\ batch_pc = "idle"
    /\ IF StageTwoIds = {}
       THEN /\ batch_pc' = "done"
            /\ id_list' = <<>>
       ELSE /\ batch_pc' = "loop"
            /\ id_list' \in ListOf(StageTwoIds)
    /\ batch_start' = 0
    /\ successful_downloads' = 0
    /\ failed_downloads' = 0
    /\ batches' = <<>>
    /\ UNCHANGED <<indexVars, should_stop, data_lock, progress_file, restarts,
                   runVars, histVars, colVars, parseVars, fileVars, retryVars, searchVars, batch_size,
                   materialized, materialized_before>>

\* one iteration of the loop of batch_download_pmc_articles: the batch is
\* fetched by download_pmc_batch, which writes the batch file or re-raises
DownloadPmcBatch(ok) ==
    /\ batch_pc = "loop"
    /\ download_mode = "pmc_only"
    /\ batch_start < Len(id_list)
    /\ LET batch_ids == BatchSlice(id_list, batch_start, batch_size)
       IN  /\ batches' = Append(batches, [ids |-> batch_ids, ok |-> ok])
           /\ materialized' = IF ok THEN materialized \cup Range(batch_ids)
                                    ELSE materialized
           /\ successful_downloads' =
                 IF ok THEN successful_downloads + Len(batch_ids)
                       ELSE successful_downloads
           /\ failed_downloads' =
                 IF ok THEN failed_downloads
                       ELSE failed_downloads + Len(batch_ids)
    /\ batch_start' = batch_start + batch_size
    /\ UNCHANGED <<indexVars, should_stop, data_lock, progress_file, restarts,
                   runVars, histVars, colVars, parseVars, fileVars, retryVars, searchVars, id_list, batch_size,
                   batch_pc, materialized_before>>

\* one iteration of the loop of batch_download_pubmed_abstracts: the batch
\* is fetched by fetch_abstracts_batch, which catches a failed fetch itself
\* and returns the articles it parsed (none); the caller adds their number
\* to successful_downloads and writes the batch file
FetchAbstractsBatch(ok) ==
    /\ batch_pc = "loop"
    /\ download_mode = "pubmed_only"
    /\ batch_start < Len(id_list)
    /\ LET batch_pmids == BatchSlice(id_list, batch_start, batch_size)
           articles    == IF ok THEN batch_pmids ELSE <<>>
       IN  /\ batches' = Append(batches, [ids |-> batch_pmids, ok |-> ok])
           /\ materialized' = materialized \cup Range(articles)
           /\ successful_downloads' = successful_downloads + Len(articles)
    /\ batch_start' = batch_start + batch_size
    /\ UNCHANGED <<indexVars, should_stop, data_lock, progress_file, restarts,
                   runVars, histVars, colVars, parseVars, fileVars, retryVars, searchVars, id_list, batch_size,
                   failed_downloads, batch_pc, materialized_before>>

\* the range of the loop is exhausted
BatchDownloadEnd ==
    /\ batch_pc = "loop"
    /\ batch_start >= Len(id_list)
    /\ batch_pc' = "done"
    /\ UNCHANGED <<indexVars, should_stop, data_lock, progress_file, restarts,
                   runVars, histVars, colVars, parseVars, fileVars, retryVars, searchVars, id_list, batch_size,
                   batch_start, successful_downloads, failed_downloads,
                   batches, materialized, materialized_before>>

\* the pipeline is run again after a completed run: stage one restores the
\* index from the checkpoint, finds every subject processed and returns
Rerun ==
    /\ batch_pc = "done"
    /\ restarts < MaxRestarts
    /\ restarts' = restarts + 1
    /\ progress_state' = LoadProgressState
    /\ SetIndex(RestoredIndex(LoadProgressState, EmptyIndex))
    /\ batch_pc' = "idle"
    /\ id_list' = <<>>
    /\ batch_start' = 0
    /\ successful_downloads' = 0
    /\ failed_downloads' = 0
    /\ batches' = <<>>
    /\ materialized_before' = materialized
    /\ UNCHANGED <<should_stop, data_lock, progress_file, runVars, histVars,
                   colVars, parseVars, file_status, last_saved, batch_size,
                   materialized, retryVars, searchVars>>

NextBatch ==
    \/ BatchDownloadBegin
    \/ \E ok \in BOOLEAN : DownloadPmcBatch(ok)
    \/ \E ok \in BOOLEAN : FetchAbstractsBatch(ok)
    \/ BatchDownloadEnd
    \/ Rerun

SpecBatch == InitBatch /\ [][NextBatch]_vars

----------------------------------------------------------------------------
(* Properties of stage two (SpecBatch) *)

\* the least k with k * b >= n
Ceil(n, b) == CHOOSE k \in 0..n : k * b >= n /\ (k = 0 \/ (k - 1) * b < n)

\* the batches that hold identifier x, as <<batch, position>>
PlacesOf(x) ==
    {bp \in {<<j, q>> : j \in DOMAIN batches, q \in 1..batch_size} :
        /\ bp[2] <= Len(batches[bp[1]].ids)
        /\ batches[bp[1]].ids[bp[2]] = x}

\* the batches whose fetch failed
FailedBatches == {j \in DOMAIN batches : ~batches[j].ok}

RECURSIVE SumOfLens(_)
SumOfLens(js) ==
    IF js = {} THEN 0
    ELSE LET j == CHOOSE x \in js : TRUE
         IN  Len(batches[j].ids) + SumOfLens(js \ {j})

\* C14: n identifiers with batch size b are cut into ceil(n/b) batches of b
\* identifiers, the last one possibly shorter, and every identifier is in
\* one batch; 250 identifiers with batch size 100 give 100, 100 and 50
C14_BatchesPartitionTheIds ==
    batch_pc = "done"
    => LET n == Cardinality(StageTwoIds)
           k == Len(batches)
       IN  /\ k = Ceil(n, batch_size)
           /\ \A j \in 1..(k - 1) : Len(batches[j].ids) = batch_size
           /\ k > 0 => Len(batches[k].ids) \in 1..batch_size
           /\ \A x \in StageTwoIds : Cardinality(PlacesOf(x)) = 1
           /\ (n = DesignIds /\ batch_size = DesignBatch)
                => [j \in DOMAIN batches |-> Len(batches[j].ids)]
                      = <<DesignBatch, DesignBatch,
                          DesignIds - 2 * DesignBatch>>

\* C14 witness: the 250 identifiers of the design have been fetched in
\* batches of 100
C14_Witness ==
    /\ batch_pc = "done"
    /\ Cardinality(StageTwoIds) = DesignIds
    /\ batch_size = DesignBatch
    /\ Len(batches) = 3

\* C15: when the phase ends, every batch has been requested, the
\* identifiers of the batches that were fetched are materialized, those of
\* the failed batches are not, failed_downloads is their number and
\* successful_downloads + failed_downloads is the number of identifiers
C15_FailedBatchIsIsolatedAndCounted ==
    (batch_pc = "done" /\ restarts = 0)
    => /\ UNION {Range(batches[j].ids) : j \in DOMAIN batches} = StageTwoIds
       /\ \A j \in DOMAIN batches :
             IF batches[j].ok
             THEN Range(batches[j].ids) \subseteq materialized
             ELSE Range(batches[j].ids) \cap materialized = {}
       /\ failed_downloads = SumOfLens(FailedBatches)
       /\ successful_downloads + failed_downloads = Cardinality(StageTwoIds)

\* C16: no batch requested by a rerun holds an identifier that a previous
\* run materialized
C16_RerunSkipsMaterializedIds ==
    \A j \in DOMAIN batches :
        Range(batches[j].ids) \cap materialized_before = {}

----------------------------------------------------------------------------
(* SpecRetry: one call through a retry wrapper, attempt by attempt.         *)
(* OptimizedPMCDownloader._retry_call and PubMedDownloader.retry_call wrap  *)
(* an Entrez call fn; every invocation of fn returns or raises.             *)
(* OptimizedPMCDownloader._safe_fetch_with_retry wraps the efetch of one    *)
(* batch and the read of its payload in a loop of its own.                  *)

\* "except (HTTPError, URLError, IncompleteRead)"
TransientErrors == {"HTTPError", "URLError", "IncompleteRead"}

\* an exception class outside the except clause of the wrappers
OtherErrors == {"ValueError"}

\* how one invocation of fn can end
CallOutcomes == {"ok"} \cup TransientErrors \cup OtherErrors

\* an except clause that catches every exception
CatchesEverything(e) == e # "ok"

\* the except clause of the wrappers catches e
Catches(e) == e \in TransientErrors

\* the default of the parameter max_retries of _safe_fetch_with_retry, with
\* which download_pmc_batch and download_pmc_by_disease call it
SafeFetchMaxRetries == 3

InitRetry ==
    /\ InitDownloader
    /\ InitNoBatch
    /\ InitNoSearch
    /\ InitProcess
    /\ InitNoParse
    /\ InitHistory
    /\ InitNoCollect
    /\ InitFile
    /\ progress_file = <<>>
    /\ restarts = 0
    /\ diseases = Worklist(1)
    /\ max_workers = 1
    /\ \/ /\ wrapper \in {"_retry_call", "retry_call"}
          /\ max_retry \in 0..MaxRetry
       \/ /\ wrapper = "_safe_fetch_with_retry"
          /\ max_retry = SafeFetchMaxRetries
    /\ attempt = 0
    /\ call_log = <<>>
    /\ sleeps = <<>>
    /\ retry_pc = "calling"
    /\ retry_value = "none"
    /\ retry_error = "none"

\* _retry_call: one pass of "while True": fn is invoked; a caught exception
\* counts an attempt and is re-raised once attempt > max_retry, else the
\* wrapper sleeps get_sleep_time() * attempt
PmcRetryCallStep(e) ==
    /\ wrapper = "_retry_call"
    /\ retry_pc = "calling"
    /\ call_log' = Append(call_log, e)
    /\ IF e = "ok"
       THEN /\ retry_pc' = "returned"
            /\ retry_value' = "value of fn"
            /\ UNCHANGED <<attempt, sleeps, retry_error>>
       ELSE IF Catches(e)
       THEN /\ attempt' = attempt + 1
            /\ IF attempt + 1 > max_retry
               THEN /\ retry_pc' = "raised"
                    /\ retry_error' = e
                    /\ sleeps' = sleeps
               ELSE /\ sleeps' = Append(sleeps, attempt + 1)
                    /\ UNCHANGED <<retry_pc, retry_error>>
            /\ retry_value' = retry_value
       ELSE /\ retry_pc' = "raised"
            /\ retry_error' = e
            /\ UNCHANGED <<attempt, sleeps, retry_value>>
    /\ UNCHANGED <<indexVars, should_stop, data_lock, progress_file, restarts,
                   runVars, histVars, colVars, parseVars, fileVars, batchVars,
                   searchVars, wrapper, max_retry>>

\* retry_call: one pass of "for attempt in range(max_retry)": fn is invoked;
\* a caught exception is re-raised in the last pass, else the wrapper sleeps
\* sleep_time * (attempt + 1) * 2
PubmedRetryCallStep(e) ==
    /\ wrapper = "retry_call"
    /\ retry_pc = "calling"
    /\ attempt < max_retry
    /\ call_log' = Append(call_log, e)
    /\ IF e = "ok"
       THEN /\ retry_pc' = "returned"
            /\ retry_value' = "value of fn"
            /\ UNCHANGED <<attempt, sleeps, retry_error>>
       ELSE IF Catches(e)
       THEN /\ IF attempt = max_retry - 1
               THEN /\ retry_pc' = "raised"
                    /\ retry_error' = e
                    /\ UNCHANGED <<attempt, sleeps>>
               ELSE /\ sleeps' = Append(sleeps, (attempt + 1) * 2)
                    /\ attempt' = attempt + 1
                    /\ UNCHANGED <<retry_pc, retry_error>>
            /\ retry_value' = retry_value
       ELSE /\ retry_pc' = "raised"
            /\ retry_error' = e
            /\ UNCHANGED <<attempt, sleeps, retry_value>>
    /\ UNCHANGED <<indexVars, should_stop, data_lock, progress_file, restarts,
                   runVars, histVars, colVars, parseVars, fileVars, batchVars,
                   searchVars, wrapper, max_retry>>

\* retry_call: range(max_retry) is exhausted without a return or a raise
\* and the function body ends, which returns None
PubmedRetryCallFallsThrough ==
    /\ wrapper = "retry_call"
    /\ retry_pc = "calling"
    /\ attempt >= max_retry
    /\ retry_pc' = "returned"
    /\ retry_value' = "None"
    /\ UNCHANGED <<indexVars, should_stop, data_lock, progress_file, restarts,
                   runVars, histVars, colVars, parseVars, fileVars, batchVars,
                   searchVars, wrapper, max_retry, attempt, call_log, sleeps,
                   retry_error>>

\* _safe_fetch_with_retry: one pass of "for attempt in range(max_retries)"
\* (max_retry holds max_retries): efetch is invoked and its payload read;
\* "except IncompleteRead" sleeps get_sleep_time() * (attempt + 1) and
\* continues unless this is the last pass; "except Exception" re-raises
\* every other exception
SafeFetchWithRetryStep(e) ==
    /\ wrapper = "_safe_fetch_with_retry"
    /\ retry_pc = "calling"
    /\ attempt < max_retry
    /\ call_log' = Append(call_log, e)
    /\ IF e = "ok"
       THEN /\ retry_pc' = "returned"
            /\ retry_value' = "value of fn"
            /\ UNCHANGED <<attempt, sleeps, retry_error>>
       ELSE IF e = "IncompleteRead" /\ attempt < max_retry - 1
       THEN /\ sleeps' = Append(sleeps, attempt + 1)
            /\ attempt' = attempt + 1
            /\ UNCHANGED <<retry_pc, retry_error, retry_value>>
       ELSE /\ retry_pc' = "raised"
            /\ retry_error' = e
            /\ UNCHANGED <<attempt, sleeps, retry_value>>
    /\ UNCHANGED <<indexVars, should_stop, data_lock, progress_file, restarts,
                   runVars, histVars, colVars, parseVars, fileVars, batchVars,
                   searchVars, wrapper, max_retry>>

NextRetry ==
    \/ \E e \in CallOutcomes : PmcRetryCallStep(e)
    \/ \E e \in CallOutcomes : PubmedRetryCallStep(e)
    \/ PubmedRetryCallFallsThrough
    \/ \E e \in CallOutcomes : SafeFetchWithRetryStep(e)

SpecRetry == InitRetry /\ [][NextRetry]_vars

----------------------------------------------------------------------------
(* Properties of the retry wrappers (SpecRetry) *)

\* C17: fn is invoked again only after an invocation that raised a
\* transient network error; an invocation that raises any other exception
\* is the last one, the wrapper raises that exception, and no sleep follows
\* it (so an exception of the first invocation propagates after one
\* invocation and no sleep)
C17_RetriesOnlyTransientErrors ==
    /\ \A k \in 1..(Len(call_log) - 1) : call_log[k] \in TransientErrors
    /\ \A k \in DOMAIN call_log :
          call_log[k] \in OtherErrors
          => /\ k = Len(call_log)
             /\ retry_pc = "raised"
             /\ retry_error = call_log[k]
             /\ Len(sleeps) = k - 1

\* C17 witness: a wrapper that may retry raised a non-transient exception
\* of its first invocation at once
C17_Witness ==
    /\ max_retry >= 2
    /\ retry_pc = "raised"
    /\ call_log = <<"ValueError">>
    /\ sleeps = <<>>

\* C18: a finished call has invoked fn at least once and at most
\* max_retry + 1 times; it returned the value of fn exactly when an
\* invocation succeeded, and raised the transient error when every
\* invocation raised one
C18_AttemptsBoundedAndNoValueWithoutSuccess ==
    /\ Len(call_log) <= max_retry + 1
    /\ retry_pc \in {"returned", "raised"}
       => /\ Len(call_log) >= 1
          /\ retry_pc = "returned"
             => /\ call_log[Len(call_log)] = "ok"
                /\ retry_value = "value of fn"
          /\ (\E k \in DOMAIN call_log : call_log[k] = "ok")
             => retry_pc = "returned"
          /\ (\A k \in DOMAIN call_log : call_log[k] \in TransientErrors)
             => /\ retry_pc = "raised"
                /\ retry_error = call_log[Len(call_log)]

\* C21: a batch fetch that ends with a transient network error has been
\* issued as many times as the retry bound allows, whichever transient
\* error it is
C21_FetchRetriesTransientErrors ==
    (/\ wrapper = "_safe_fetch_with_retry"
     /\ retry_pc = "raised"
     /\ retry_error \in TransientErrors)
    => Len(call_log) = max_retry

\* C25: the sleep before the k-th retry is k times get_sleep_time()
C25_BackoffIsLinearInAttempt ==
    \A k \in DOMAIN sleeps : sleeps[k] = k

----------------------------------------------------------------------------
(* SpecSearch: the searches of one subject on one collector instance, page  *)
(* by page, against a deterministic service that raises no error.           *)
(* Mode "pmc_only" is OptimizedPMCDownloader.search_pmc_by_disease, mode    *)
(* "pubmed_only" is PubMedDownloader.search_pubmed.  The caller,            *)
(* collect_single_disease_literature, tests should_stop before it calls a   *)
(* search.  Between two searches the instance may parse fetched records,    *)
(* which adds their ids to processed_pmids, or be replaced by a new one.    *)

\* the ids of a set in the order in which the service lists them
SortedSeq(ids) ==
    [k \in 1..Cardinality(ids) |->
        CHOOSE x \in ids : Cardinality({y \in ids : y < x}) = k - 1]

\* the answer of the service to esearch(term, retstart, retmax)
ServicePage(ids, start, retmax) ==
    LET lst == SortedSeq(ids)
    IN  SubSeq(lst, start + 1,
               IF start + retmax < Len(lst) THEN start + retmax ELSE Len(lst))

\* the ids matched by a term
Matches(term) ==
    IF term = "exact" THEN service.exact
    ELSE IF term = "loose" THEN service.loose
    ELSE service.pubmed

\* a page from which the ids the instance has processed are dropped
PageIdsUnprocessed(id_page) ==
    SelectSeq([k \in DOMAIN id_page |->
                  IF download_mode = "pmc_only" THEN NormalizePmcId(id_page[k])
                                                ELSE id_page[k]],
              LAMBDA x : x \notin processed_pmids)

\* what a page adds to all_ids / all_pmids: the PMC ids with their prefix,
\* the PubMed ids as they come
PageIds(id_page) ==
    [k \in DOMAIN id_page |->
        IF download_mode = "pmc_only" THEN NormalizePmcId(id_page[k])
                                      ELSE id_page[k]]

\* the first of two numbers
First(a, b) == a

\* min(a, b)
Min(a, b) == IF a < b THEN a ELSE b

\* the services: the quoted query matches nothing or three records, the
\* unquoted one at least as many; one PMC id comes with its prefix
SearchServices ==
    { [exact |-> m[1], loose |-> m[2], pmc_count_raises |-> FALSE,
       pmc_page_raises |-> FALSE, pubmed |-> pm, pubmed_raises |-> FALSE] :
        m \in {<<{}, {}>>, <<{}, {1, 2}>>, <<{1, 2, 103}, {1, 2, 103, 4}>>},
        pm \in {{}, {201, 202, 203}} }

\* the same services, whose queries may also keep raising a network error
FailingServices ==
    { [svc EXCEPT !.pmc_count_raises = f[1], !.pmc_page_raises = f[2],
                  !.pubmed_raises = f[3]] :
        svc \in SearchServices, f \in BOOLEAN \X BOOLEAN \X BOOLEAN }

\* an external call of the search, as entrez_calls records it
EntrezCall(kind, term, raises) ==
    [kind |-> kind, term |-> term,
     outcome |-> IF raises THEN "raised" ELSE "ok",
     n |-> IF raises THEN 0 ELSE Cardinality(Matches(term))]

\* time.sleep(self.get_sleep_time())
Sleep == [kind |-> "sleep", term |-> "", outcome |-> "ok", n |-> 0]

InitSearchWith(services) ==
    /\ InitDownloader
    /\ InitNoBatch
    /\ InitNoRetry
    /\ InitProcess
    /\ InitNoParse
    /\ InitHistory
    /\ InitFile
    /\ progress_file = <<>>
    /\ restarts = 0
    /\ diseases = Worklist(1)
    /\ max_workers = 1
    /\ download_mode \in {"pmc_only", "pubmed_only"}
    /\ service \in services
    /\ disease_info = <<>>
    /\ max_records_per_search \in 1..MaxPage
    /\ processed_pmids = {}
    /\ search_pc = "idle"
    /\ count = 0
    /\ retstart = 0
    /\ page_size = 0
    /\ all_ids = <<>>
    /\ final_search_term = "exact"
    /\ page_requests = <<>>
    /\ entrez_calls = <<>>
    /\ search_results = <<>>

InitSearch == InitSearchWith(SearchServices)

\* what a search that ends here hands to its caller
SearchResult(ids, raised) ==
    [ids |-> ids, seen |-> processed_pmids, raised |-> raised]

\* the search up to its paging loop: the count query of _try_search for the
\* quoted term and, on a count of 0, for the unquoted one (PMC), or the one
\* count query of search_pubmed, whose exception is caught by the except
\* clause of the search; a count of 0 returns []
SearchBegin ==
    /\ search_pc = "idle"
    /\ ~should_stop
    /\ Len(search_results) < MaxSearches
    /\ LET pubmed == download_mode = "pubmed_only"
           exact  == TrySearch(service, service.exact)
           loose  == TrySearch(service, service.loose)
           term   == IF pubmed THEN "pubmed"
                     ELSE IF exact # 0 THEN "exact" ELSE "loose"
           n      == IF pubmed
                     THEN RetryCall(service.pubmed_raises,
                                    Cardinality(service.pubmed)).value
                     ELSE IF exact # 0 THEN exact ELSE loose
       IN  /\ final_search_term' = term
           /\ count' = n
           /\ page_size' = Min(max_records_per_search, n)
           /\ entrez_calls' =
                 IF pubmed
                 THEN <<EntrezCall("count", "pubmed", service.pubmed_raises)>>
                 ELSE IF exact # 0
                 THEN <<EntrezCall("count", "exact", service.pmc_count_raises)>>
                 ELSE <<EntrezCall("count", "exact", service.pmc_count_raises),
                        EntrezCall("count", "loose", service.pmc_count_raises)>>
           /\ IF n = 0
              THEN /\ search_results' = Append(search_results,
                                               SearchResult(<<>>, FALSE))
                   /\ search_pc' = "idle"
              ELSE /\ search_results' = search_results
                   /\ search_pc' = "paging"
    /\ retstart' = 0
    /\ all_ids' = <<>>
    /\ page_requests' = <<>>
    /\ UNCHANGED <<indexVars, should_stop, data_lock, progress_file, restarts,
                   runVars, histVars, colVars, parseVars, fileVars, batchVars, retryVars,
                   max_records_per_search, processed_pmids>>

\* one pass of the paging loop: the page query, the extension of the id
\* list, the advance of retstart and the sleep; search_pubmed sleeps only in
\* its loop for count > retmax, not after its single query for the rest.
\* A page query that keeps raising ends the PMC search with the exception.
PageRequest ==
    /\ search_pc = "paging"
    /\ retstart < count
    /\ LET size == Min(page_size, count - retstart)
           page == ServicePage(Matches(final_search_term), retstart, size)
           req  == [retstart |-> retstart, retmax |-> size,
                    after_stop |-> should_stop]
           call == EntrezCall("page", final_search_term,
                              service.pmc_page_raises
                                 /\ download_mode = "pmc_only")
       IN  /\ page_requests' = Append(page_requests, req)
           /\ IF call.outcome = "raised"
              THEN /\ entrez_calls' = Append(entrez_calls, call)
                   /\ search_results' = Append(search_results,
                                               SearchResult(<<>>, TRUE))
                   /\ search_pc' = "idle"
                   /\ UNCHANGED <<all_ids, retstart>>
              ELSE /\ entrez_calls' =
                         IF download_mode = "pmc_only"
                            \/ count > max_records_per_search
                         THEN entrez_calls \o <<call, Sleep>>
                         ELSE Append(entrez_calls, call)
                   /\ all_ids' = all_ids \o PageIds(page)
                   /\ retstart' = retstart + size
                   /\ UNCHANGED <<search_results, search_pc>>
    /\ UNCHANGED <<indexVars, should_stop, data_lock, progress_file, restarts,
                   runVars, histVars, colVars, parseVars, fileVars, batchVars, retryVars,
                   max_records_per_search, processed_pmids, count,
                   page_size, final_search_term>>

\* the paging loop ends and the id list is returned
SearchReturn ==
    /\ search_pc = "paging"
    /\ retstart >= count
    /\ search_results' = Append(search_results, SearchResult(all_ids, FALSE))
    /\ search_pc' = "idle"
    /\ UNCHANGED <<indexVars, should_stop, data_lock, progress_file, restarts,
                   runVars, histVars, colVars, parseVars, fileVars, batchVars, retryVars,
                   max_records_per_search, processed_pmids, count, retstart,
                   page_size, all_ids, final_search_term, page_requests,
                   entrez_calls>>

\* the instance parses the fetched records of the ids it found, which puts
\* them into processed_pmids
ParseFetched ==
    /\ search_pc = "idle"
    /\ search_results # <<>>
    /\ LET found == Range(search_results[Len(search_results)].ids)
       IN  /\ ~(found \subseteq processed_pmids)
           /\ processed_pmids' = processed_pmids \cup found
    /\ UNCHANGED <<indexVars, should_stop, data_lock, progress_file, restarts,
                   runVars, histVars, colVars, parseVars, fileVars, batchVars, retryVars,
                   max_records_per_search, search_pc, count, retstart,
                   page_size, all_ids, final_search_term, page_requests,
                   entrez_calls, search_results>>

\* the next search runs on a new instance: __init__ sets processed_pmids
NewInstance ==
    /\ search_pc = "idle"
    /\ processed_pmids # {}
    /\ processed_pmids' = {}
    /\ UNCHANGED <<indexVars, should_stop, data_lock, progress_file, restarts,
                   runVars, histVars, colVars, parseVars, fileVars, batchVars, retryVars,
                   max_records_per_search, search_pc, count, retstart,
                   page_size, all_ids, final_search_term, page_requests,
                   entrez_calls, search_results>>

NextSearch ==
    \/ SignalHandler
    \/ SearchBegin
    \/ PageRequest
    \/ SearchReturn
    \/ ParseFetched
    \/ NewInstance

SpecSearch == InitSearch /\ [][NextSearch]_vars

\* the searches against a service whose queries may keep raising
InitFailing == InitSearchWith(FailingServices)

SpecFailing == InitFailing /\ [][NextSearch]_vars

----------------------------------------------------------------------------
(* Properties of the searches (SpecSearch) *)

\* the identifiers of the subject in the service, as the collector names them
ExpectedIds ==
    IF download_mode = "pubmed_only" THEN service.pubmed
    ELSE {NormalizePmcId(x) :
             x \in IF service.exact # {} THEN service.exact ELSE service.loose}

\* C19: every search of the subject returns the same identifier set, the
\* one the service holds for it, whatever the instance searched or parsed
\* before and whether or not it is a new instance
C19_SearchIsIdempotent ==
    /\ \A a \in DOMAIN search_results :
          Range(search_results[a].ids) = ExpectedIds
    /\ \A a, b \in DOMAIN search_results :
          Range(search_results[a].ids) = Range(search_results[b].ids)

\* C19 witness: a second search over several pages on an instance that has
\* parsed the records found by the first one
C19_Witness ==
    /\ Len(search_results) = 2
    /\ search_results[2].seen # {}
    /\ Len(search_results[2].ids) = 3
    /\ Len(page_requests) > 1

\* C20: a search that is under way when the stop flag is set issues at most
\* the page query that was in flight
C20_NoPageRequestAfterStop ==
    Cardinality({k \in DOMAIN page_requests : page_requests[k].after_stop}) <= 1

\* the count queries of the current search, in order
CountQueries == SelectSeq(entrez_calls, LAMBDA c : c.kind = "count")

\* the current search is over and returned [] to its caller
ReturnedEmpty ==
    /\ search_pc = "idle"
    /\ entrez_calls # <<>>
    /\ search_results[Len(search_results)].ids = <<>>
    /\ ~search_results[Len(search_results)].raised

\* C22: the PMC search queries the quoted variant first; it queries the
\* unquoted variant only after the quoted one completed with a count of
\* zero, and no variant after one with a nonzero count, which is the one it
\* pages; it returns [] only when both variants completed with count zero
C22_VariantsInOrderFirstMatchAdopted ==
    (download_mode = "pmc_only" /\ entrez_calls # <<>>)
    => LET q == CountQueries
       IN  /\ Len(q) \in 1..2
           /\ q[1].term = "exact"
           /\ Len(q) = 2
              => /\ q[2].term = "loose"
                 /\ q[1].outcome = "ok"
                 /\ q[1].n = 0
           /\ \A k \in DOMAIN q :
                 q[k].n # 0 => k = Len(q) /\ final_search_term = q[k].term
           /\ \A k \in DOMAIN entrez_calls :
                 entrez_calls[k].kind = "page"
                 => entrez_calls[k].term = q[Len(q)].term
           /\ ReturnedEmpty
              => /\ Len(q) = 2
                 /\ \A k \in DOMAIN q : q[k].outcome = "ok" /\ q[k].n = 0

\* C23: the page queries of a search are consecutive ranges of at most
\* max_records_per_search records that start at 0 and stay within the match
\* count; a search that returned made ceil(count / max_records_per_search)
\* of them, which cover [0, count), and returned the ids of the service in
\* page order
C23_PagesPartitionTheMatches ==
    /\ Len(page_requests) <= Ceil(count, max_records_per_search)
    /\ \A k \in DOMAIN page_requests :
          /\ page_requests[k].retmax \in 1..max_records_per_search
          /\ page_requests[k].retstart =
                IF k = 1 THEN 0
                ELSE page_requests[k - 1].retstart + page_requests[k - 1].retmax
          /\ page_requests[k].retstart + page_requests[k].retmax <= count
    /\ (search_pc = "idle" /\ page_requests # <<>>)
       => LET last == page_requests[Len(page_requests)]
          IN  /\ Len(page_requests) = Ceil(count, max_records_per_search)
              /\ last.retstart + last.retmax = count
              /\ search_results[Len(search_results)].ids =
                    PageIds(SortedSeq(Matches(final_search_term)))

\* C23 witness: a search of three matches with a page size of two returned
\* after a full and a short page
C23_Witness ==
    /\ search_pc = "idle"
    /\ count = 3
    /\ max_records_per_search = 2
    /\ Len(page_requests) = 2
    /\ page_requests[2].retmax = 1
    /\ Len(search_results[Len(search_results)].ids) = 3

\* C24: no two external calls of a search follow each other without a
\* sleep of get_sleep_time() between them
C24_SleepBetweenExternalCalls ==
    \A k \in 1..(Len(entrez_calls) - 1) :
        entrez_calls[k].kind = "sleep" \/ entrez_calls[k + 1].kind = "sleep"

----------------------------------------------------------------------------
(* SpecParse: the pool threads of PubMedDownloader.process_diseases_batch,  *)
(* which run process_single_disease on one shared downloader instance.      *)
(* Each thread parses the articles fetched for its subject; every article   *)
(* is valid.  A thread may be suspended between two bytecodes, so between   *)
(* the test "pmid not in self.processed_pmids" and the add that follows.    *)

\* the PMIDs the fetched records are drawn from
PmidPool == {201, 202}

\* the pool threads
Threads == 1..MaxThreads

\* the records fetched for a subject, each PMID once
FetchedRecords ==
    {lst \in UNION {[1..n -> PmidPool] : n \in 0..Cardinality(PmidPool)} :
        NoDuplicates(lst)}

InitParse ==
    /\ InitDownloader
    /\ InitNoBatch
    /\ InitNoRetry
    /\ InitNoSearch
    /\ InitHistory
    /\ InitNoCollect
    /\ InitFile
    /\ progress_file = <<>>
    /\ restarts = 0
    /\ diseases = Worklist(MaxThreads)
    /\ max_workers = MaxThreads
    /\ pc = "start"
    /\ processed_diseases = {}
    /\ remaining_diseases = <<>>
    /\ future = EmptyDict
    /\ ac_queue = <<>>
    /\ cur = 0
    /\ in_merge = {}
    /\ report_written = FALSE
    /\ parse_todo \in [Threads -> FetchedRecords]
    /\ parse_checked = [t \in Threads |-> FALSE]
    /\ parse_articles = [t \in Threads |-> <<>>]

\* parse_pubmed_xml, thread t: the test of "if article.is_valid() and
\* article.pmid not in self.processed_pmids" for the next article; an
\* article that is in the set is passed over
ParseTest(t) ==
    /\ parse_todo[t] # <<>>
    /\ ~parse_checked[t]
    /\ IF Head(parse_todo[t]) \notin processed_pmids
       THEN /\ parse_checked' = [parse_checked EXCEPT ![t] = TRUE]
            /\ parse_todo' = parse_todo
       ELSE /\ parse_todo' = [parse_todo EXCEPT ![t] = Tail(@)]
            /\ parse_checked' = parse_checked
    /\ UNCHANGED <<indexVars, should_stop, data_lock, progress_file, restarts,
                   runVars, histVars, colVars, fileVars, batchVars, retryVars,
                   searchVars, parse_articles>>

\* parse_pubmed_xml, thread t: the body of the if: articles.append(article)
\* and self.processed_pmids.add(article.pmid)
ParseAdd(t) ==
    /\ parse_checked[t]
    /\ parse_articles' = [parse_articles EXCEPT
                             ![t] = Append(@, Head(parse_todo[t]))]
    /\ processed_pmids' = processed_pmids \cup {Head(parse_todo[t])}
    /\ parse_todo' = [parse_todo EXCEPT ![t] = Tail(@)]
    /\ parse_checked' = [parse_checked EXCEPT ![t] = FALSE]
    /\ UNCHANGED <<indexVars, should_stop, data_lock, progress_file, restarts,
                   runVars, histVars, colVars, fileVars, batchVars, retryVars,
                   max_records_per_search, search_pc, count, retstart,
                   page_size, all_ids, final_search_term, page_requests,
                   entrez_calls, search_results>>

NextParse ==
    \/ \E t \in Threads : ParseTest(t)
    \/ \E t \in Threads : ParseAdd(t)

SpecParse == InitParse /\ [][NextParse]_vars

\* the places (thread, position) of the returned articles with PMID x
ArticlesWith(x) ==
    {tk \in Threads \X (1..Cardinality(PmidPool)) :
        /\ tk[2] <= Len(parse_articles[tk[1]])
        /\ parse_articles[tk[1]][tk[2]] = x}

\* C27: over all threads of the shared instance, no PMID is in the returned
\* articles more than once
C27_ArticleIncludedAtMostOnce ==
    \A x \in PmidPool : Cardinality(ArticlesWith(x)) <= 1

----------------------------------------------------------------------------
(* Further properties of the runs (SpecRun, SpecLong, SpecStage) *)

\* C26: when stage one of the first process completes without a stop
\* signal, the checkpoint file lists the whole worklist as processed
C26_FinalCheckpointListsWholeWorklist ==
    (restarts = 0 /\ StageOneCompleted)
    => /\ progress_file # <<>>
       /\ progress_file[1].processed_diseases = Range(diseases)

\* the subjects of the index whose result is a failure
FailedSubjects ==
    {d \in DOMAIN disease_literature_mapping :
        ~disease_literature_mapping[d].success}

\* C28: the result of a task that saw the stop flag at its start never
\* reaches process_disease_result: the loop holds no such result, the index
\* records none, and in a first process the counters count the recorded
\* results only
C28_StoppedResultsAreNeverMerged ==
    /\ pc \in {"got", "merging"} => future[cur] # "stopped"
    /\ \A d \in DOMAIN disease_literature_mapping :
          disease_literature_mapping[d].error # "Process stopped"
    /\ restarts = 0
       => /\ processed_count = Cardinality(DOMAIN disease_literature_mapping)
          /\ failed_count = Cardinality(FailedSubjects)

\* C28 witness: stage one returned after a stop signal with a merged result
\* and the result of a stopped task, which as_completed has handed out or
\* dropped
C28_Witness ==
    /\ pc = "stage_one_returned"
    /\ restarts = 0
    /\ processed_count >= 1
    /\ ac_queue = <<>>
    /\ \E d \in DOMAIN future : future[d] = "stopped"

\* stage one has returned: no task is queued or running, the tasks that were
\* queued at the signal returned without collecting, the checkpoint is saved
StageOneDrained ==
    /\ pc \in {"stage_one_returned", "returned"}
    /\ \A d \in DOMAIN future : future[d] \in {"finished", "stopped"}
    /\ \A d \in at_stop.queued : future[d] = "stopped"
    /\ saved_this_run

\* C29: once the stop flag is set, stage one eventually returns with the
\* pool drained, the queued tasks stopped and the final save done
C29_StopEventuallyReturns == should_stop ~> StageOneDrained

\* C29 witness: stage one returned after a signal that found a task queued
C29_Witness ==
    /\ StageOneDrained
    /\ should_stop
    /\ at_stop.queued # {}
    /\ at_stop.running # {}

\* C30: processed_count = successful_count + failed_count in every state,
\* and a merge adds one to processed_count and to exactly one of the two
\* other counters
C30_CountersAddUp ==
    /\ [](processed_count = successful_count + failed_count)
    /\ [][(pc = "merging" /\ pc' = "loop")
          => /\ processed_count' = processed_count + 1
             /\ \/ /\ successful_count' = successful_count + 1
                   /\ failed_count' = failed_count
                \/ /\ successful_count' = successful_count
                   /\ failed_count' = failed_count + 1]_vars

\* C30 witness: a first process has merged a successful and a failed result
C30_Witness ==
    /\ restarts = 0
    /\ successful_count >= 1
    /\ failed_count >= 1
    /\ processed_count = 2

====
